---- MODULE Spec2Model ----
(***************************************************************************)
(* Model of package safepath (depp/safepath), final API version.           *)
(*                                                                         *)
(* A Go string is a sequence of bytes 0..255.  A Rules value (uint8) is    *)
(* the set of the bit positions 0..7 that are set in it, so that & is \cap,*)
(* | is \cup, &^ is \ and 0 is {}.  An error result is a set: {} is nil,   *)
(* {e} is a pointer to the Error record e.  result and str hold what the   *)
(* call named by pc returned: an error, or the string of GoString.         *)
(***************************************************************************)
EXTENDS Integers, Sequences, FiniteSets

VARIABLES flags, windowsReserved, r, name, result, str, pc

vars == <<flags, windowsReserved, r, name, result, str, pc>>

(***************************************************************************)
(* Bounds of the explored inputs.                                          *)
(***************************************************************************)
MaxLen == 2
MaxBitsLen == 2
MaxParts == 3
MaxPathLen == 5
MaxAffix == 1
MaxCallLen == 2

(***************************************************************************)
(* Rules bit flags.                                                        *)
(***************************************************************************)
Any == {}
ASCIIOnly == {0}
ValidUTF8 == {1}
URLUnescaped == {2}
ShellSafe == {3}
ArgumentSafe == {4}
WindowsSafe == {5}
NotHidden == {6}
always == {7}

Strict ==
    ASCIIOnly \cup ValidUTF8 \cup URLUnescaped \cup ShellSafe
        \cup ArgumentSafe \cup WindowsSafe \cup NotHidden

\* Every value of the type Rules (uint8).
Rules == SUBSET (0..7)

(***************************************************************************)
(* Byte and rune literals used by the code.                                *)
(***************************************************************************)
Slash == 47
Dot == 46
Space == 32
Tilde == 126
Hyphen == 45
RuneError == 65533

\* The URL list without ':'.
URLReservedBytesNoColon ==
    {32, 34, 35, 37, 47, 60, 62, 63, 91, 92, 93, 94, 96, 123, 124, 125}

\* " \"#%/:<>?[\\]^`{|}"
URLReservedBytes ==
    {32, 34, 35, 37, 47, 58, 60, 62, 63, 91, 92, 93, 94, 96, 123, 124, 125}

\* The shell list without the space.
ShellMetaBytesNoSpace == {124, 38, 59, 60, 62, 40, 41, 36, 96, 92, 34, 39}

\* " |&;<>()$`\\\"'"
ShellMetaBytes == {32, 124, 38, 59, 60, 62, 40, 41, 36, 96, 92, 34, 39}

\* "<>:\"/\\|?*"
WindowsReservedBytes == {60, 62, 58, 34, 47, 92, 124, 63, 42}

(***************************************************************************)
(* init(): the byte table and the reserved Windows names.                  *)
(***************************************************************************)
\* init() without "&^ ASCIIOnly" for the bytes 128..255.
InitFlagsHighASCII ==
    [c \in 0..255 |->
        LET control == IF c \in 1..31 \/ c = 127
                       THEN always \cup ASCIIOnly \cup ValidUTF8
                       ELSE {}
            ascii == IF c \in 32..126 THEN Strict \cup always ELSE control
            slash == IF c = Slash THEN {} ELSE ascii
            high == IF c \in 128..255 THEN Strict \cup always ELSE slash
            url == IF c \in URLReservedBytes THEN high \ URLUnescaped ELSE high
            shell == IF c \in ShellMetaBytes THEN url \ ShellSafe ELSE url
        IN  IF c \in WindowsReservedBytes THEN shell \ WindowsSafe ELSE shell]

\* init() without "always" for the control bytes.
InitFlagsControlNotAlways ==
    [c \in 0..255 |->
        LET control == IF c \in 1..31 \/ c = 127
                       THEN ASCIIOnly \cup ValidUTF8
                       ELSE {}
            ascii == IF c \in 32..126 THEN Strict \cup always ELSE control
            slash == IF c = Slash THEN {} ELSE ascii
            high == IF c \in 128..255
                    THEN (Strict \cup always) \ ASCIIOnly
                    ELSE slash
            url == IF c \in URLReservedBytes THEN high \ URLUnescaped ELSE high
            shell == IF c \in ShellMetaBytes THEN url \ ShellSafe ELSE url
        IN  IF c \in WindowsReservedBytes THEN shell \ WindowsSafe ELSE shell]

\* init() with the loop over the printable bytes starting at 31.
InitFlagsPrintableFrom31 ==
    [c \in 0..255 |->
        LET control == IF c \in 1..31 \/ c = 127
                       THEN always \cup ASCIIOnly \cup ValidUTF8
                       ELSE {}
            ascii == IF c \in 31..126 THEN Strict \cup always ELSE control
            slash == IF c = Slash THEN {} ELSE ascii
            high == IF c \in 128..255
                    THEN (Strict \cup always) \ ASCIIOnly
                    ELSE slash
            url == IF c \in URLReservedBytes THEN high \ URLUnescaped ELSE high
            shell == IF c \in ShellMetaBytes THEN url \ ShellSafe ELSE url
        IN  IF c \in WindowsReservedBytes THEN shell \ WindowsSafe ELSE shell]

InitFlags ==
    [c \in 0..255 |->
        LET control == IF c \in 1..31 \/ c = 127
                       THEN always \cup ASCIIOnly \cup ValidUTF8
                       ELSE {}
            ascii == IF c \in 32..126 THEN Strict \cup always ELSE control
            slash == IF c = Slash THEN {} ELSE ascii
            high == IF c \in 128..255
                    THEN (Strict \cup always) \ ASCIIOnly
                    ELSE slash
            url == IF c \in URLReservedBytes THEN high \ URLUnescaped ELSE high
            shell == IF c \in ShellMetaBytes THEN url \ ShellSafe ELSE url
        IN  IF c \in WindowsReservedBytes THEN shell \ WindowsSafe ELSE shell]

InitWindowsReserved ==
    \* "con", "prn", "aux", "nul"
    {<<99, 111, 110>>, <<112, 114, 110>>, <<97, 117, 120>>, <<110, 117, 108>>}
        \cup
    \* "com" and "lpt" followed by strconv.Itoa(i), i = 1..9
    {n \o <<48 + i>> : n \in {<<99, 111, 109>>, <<108, 112, 116>>}, i \in 1..9}

(***************************************************************************)
(* Results.                                                                *)
(***************************************************************************)
errBad == 0
errFirst == 1
errLast == 2
errAny == 3
errInvalidUTF8 == 4
errNonASCII == 5
errWReserved == 6
errEmpty == 7
errAbsolute == 8
errTrailingSlash == 9
errDoubleSlash == 10

Nil == {}

\* The zero value of struct Error.
Error ==
    [isPath |-> FALSE, path |-> <<>>, name |-> <<>>, err |-> errBad,
     byte |-> 0, char |-> 0, base |-> <<>>]

(***************************************************************************)
(* Library functions the code calls.                                       *)
(***************************************************************************)
\* s[i:] with i counted from 0.
From(s, i) == SubSeq(s, i + 1, Len(s))

\* s[:i] with i counted from 0.
Upto(s, i) == SubSeq(s, 1, i)

\* strings.IndexByte: the index from 0 of the first c in s, or -1.
IndexByte(s, c) ==
    IF \E i \in 1..Len(s) : s[i] = c
    THEN (CHOOSE i \in 1..Len(s) : s[i] = c /\ \A j \in 1..(i - 1) : s[j] # c) - 1
    ELSE -1

\* utf8.DecodeRuneInString: <<rune, size>>; <<RuneError, 1>> for an
\* ill-formed or truncated encoding, <<RuneError, 0>> for the empty string.
DecodeRuneInString(s) ==
    LET n == Len(s)
        bad == <<RuneError, 1>>
        cont(b) == b \in 128..191
    IN  IF n < 1 THEN <<RuneError, 0>>
        ELSE LET s0 == s[1] IN
          IF s0 < 128 THEN <<s0, 1>>
          ELSE IF s0 \in 194..223 THEN
            IF n < 2 \/ ~cont(s[2]) THEN bad
            ELSE <<(s0 - 192) * 64 + (s[2] - 128), 2>>
          ELSE IF s0 \in 224..239 THEN
            LET lo == IF s0 = 224 THEN 160 ELSE 128
                hi == IF s0 = 237 THEN 159 ELSE 191
            IN  IF n < 3 \/ s[2] \notin lo..hi \/ ~cont(s[3]) THEN bad
                ELSE <<(s0 - 224) * 4096 + (s[2] - 128) * 64 + (s[3] - 128), 3>>
          ELSE IF s0 \in 240..244 THEN
            LET lo == IF s0 = 240 THEN 144 ELSE 128
                hi == IF s0 = 244 THEN 143 ELSE 191
            IN  IF n < 4 \/ s[2] \notin lo..hi \/ ~cont(s[3]) \/ ~cont(s[4])
                THEN bad
                ELSE <<(s0 - 240) * 262144 + (s[2] - 128) * 4096
                         + (s[3] - 128) * 64 + (s[4] - 128), 4>>
          ELSE bad

\* utf8.RuneStart
RuneStart(b) == b \notin 128..191

RECURSIVE LastStart(_, _, _)
\* The backward loop of utf8.DecodeLastRuneInString; indices from 0.
LastStart(s, start, lim) ==
    IF start < lim THEN start
    ELSE IF RuneStart(s[start + 1]) THEN start
    ELSE LastStart(s, start - 1, lim)

\* utf8.DecodeLastRuneInString
DecodeLastRuneInString(s) ==
    LET end == Len(s) IN
    IF end = 0 THEN <<RuneError, 0>>
    ELSE IF s[end] < 128 THEN <<s[end], 1>>
    ELSE LET lim == IF end - 4 < 0 THEN 0 ELSE end - 4
             found == LastStart(s, end - 2, lim)
             start == IF found < 0 THEN 0 ELSE found
             d == DecodeRuneInString(From(s, start))
         IN  IF start + d[2] # end THEN <<RuneError, 1>> ELSE d

\* strings.ToLower left out: the base name is looked up as written.
ToLowerKeep(s) == s

\* strings.ToLower.  Bytes 'A'..'Z' are mapped to 'a'..'z'.  Other bytes are
\* kept: the result is used only for membership in windowsReserved, whose
\* names are made of c o n p r a u x l m t and digits, and no character outside
\* ASCII has a lower case form among these letters.
ToLower(s) == [i \in 1..Len(s) |-> IF s[i] \in 65..90 THEN s[i] + 32 ELSE s[i]]

(***************************************************************************)
(* Rules.CheckPathSegment                                                  *)
(***************************************************************************)
\* r = r & Strict, the always bit forgotten.
EffectiveRulesNoAlways(r0) == r0 \cap Strict

\* r = (r & Strict) | always
EffectiveRules(r0) == (r0 \cap Strict) \cup always

\* name == "" || name == "."
IsReservedSegmentNoDotDot(s) == s = <<>> \/ s = <<Dot>>

\* name == "" || name == "." || name == ".."
IsReservedSegment(s) == s = <<>> \/ s = <<Dot>> \/ s = <<Dot, Dot>>

\* r&(ASCIIOnly|ValidUTF8) == ASCIIOnly|ValidUTF8
NeedsUTF8ScanBoth(er) ==
    er \cap (ASCIIOnly \cup ValidUTF8) = ASCIIOnly \cup ValidUTF8

\* r&(ASCIIOnly|ValidUTF8) == ValidUTF8
NeedsUTF8Scan(er) == er \cap (ASCIIOnly \cup ValidUTF8) = ValidUTF8

RECURSIVE WellFormed(_)
\* The loop over rest: FALSE when some decoding step gives (RuneError, 1).
WellFormed(rest) ==
    IF Len(rest) = 0 THEN TRUE
    ELSE LET d == DecodeRuneInString(rest) IN
         IF d[1] = RuneError /\ d[2] = 1 THEN FALSE
         ELSE WellFormed(From(rest, d[2]))

UTF8Scan(er, s) ==
    IF NeedsUTF8Scan(er) /\ ~WellFormed(s)
    THEN {[Error EXCEPT !.name = s, !.err = errInvalidUTF8]}
    ELSE Nil

\* The error for the byte at index i (from 0) that fails the table.
ByteError(er, s, i) ==
    LET c == s[i + 1]
        ecode == IF er \cap ASCIIOnly # {} /\ er \cap ASCIIOnly = {}
                 THEN errNonASCII ELSE errAny
        d == DecodeRuneInString(From(s, i))
    IN  IF d[1] = RuneError /\ d[2] = 1
        THEN [Error EXCEPT !.name = s, !.err = ecode, !.byte = c]
        ELSE [Error EXCEPT !.name = s, !.err = ecode, !.char = d[1]]

\* f&r != f
ByteFailsTableSide(er, c) == flags[c] \cap er # flags[c]

\* f&r != r
ByteFails(er, c) == flags[c] \cap er # er

\* for i, c := range []byte(name)
ByteScan(er, s) ==
    IF \E i \in 1..Len(s) : ByteFails(er, s[i])
    THEN LET i == CHOOSE i \in 1..Len(s) :
                    /\ ByteFails(er, s[i])
                    /\ \A j \in 1..(i - 1) : ~ByteFails(er, s[j])
         IN  {ByteError(er, s, i - 1)}
    ELSE Nil

ShellCheck(er, s, first) ==
    IF er \cap ShellSafe # {} /\ first = Tilde
    THEN {[Error EXCEPT !.name = s, !.err = errFirst, !.char = first]}
    ELSE Nil

\* The '-' test guarded by the ShellSafe bit.
ArgumentCheckShellBit(er, s, first) ==
    IF er \cap ShellSafe # {} /\ first = Hyphen
    THEN {[Error EXCEPT !.name = s, !.err = errFirst, !.char = first]}
    ELSE Nil

\* The '-' test applied to the last character.
ArgumentCheckLast(er, s, first) ==
    IF er \cap ArgumentSafe # {} /\ DecodeLastRuneInString(s)[1] = Hyphen
    THEN {[Error EXCEPT !.name = s, !.err = errFirst, !.char = Hyphen]}
    ELSE Nil

ArgumentCheck(er, s, first) ==
    IF er \cap ArgumentSafe # {} /\ first = Hyphen
    THEN {[Error EXCEPT !.name = s, !.err = errFirst, !.char = first]}
    ELSE Nil

\* last == '.'
IsTrailingDotOnly(last) == last = Dot

\* last == '.' || last == ' '
IsTrailing(last) == last = Dot \/ last = Space

\* The reserved name check, after the trailing character check.
ReservedCheck(s) ==
    LET i == IndexByte(s, Dot) IN
    IF i = -1 \/ IndexByte(From(s, i + 1), Dot) = -1
    THEN LET base == IF i # -1 THEN Upto(s, i) ELSE s IN
         IF Len(base) = 3 \/ Len(base) = 4
         THEN LET lower == ToLower(base) IN
              IF lower \in windowsReserved
              THEN {[Error EXCEPT !.name = s, !.err = errWReserved, !.base = lower]}
              ELSE Nil
         ELSE Nil
    ELSE Nil

WindowsCheck(er, s, last) ==
    IF er \cap WindowsSafe # {}
    THEN IF IsTrailing(last)
         THEN {[Error EXCEPT !.name = s, !.err = errLast, !.char = last]}
         ELSE ReservedCheck(s)
    ELSE Nil

HiddenCheck(er, s, first) ==
    IF er \cap NotHidden # {} /\ first = Dot
    THEN {[Error EXCEPT !.name = s, !.err = errFirst, !.char = first]}
    ELSE Nil

\* The checks after the byte scan with the NotHidden check moved before the
\* WindowsSafe checks.
PositionalChecksHiddenFirst(er, s) ==
    LET first == DecodeRuneInString(s)[1]
        last == DecodeLastRuneInString(s)[1]
        e1 == ShellCheck(er, s, first)
        e2 == ArgumentCheck(er, s, first)
        e3 == HiddenCheck(er, s, first)
    IN  IF e1 # Nil THEN e1
        ELSE IF e2 # Nil THEN e2
        ELSE IF e3 # Nil THEN e3
        ELSE WindowsCheck(er, s, last)

\* The checks after the byte scan, in the order of the code.
PositionalChecks(er, s) ==
    LET first == DecodeRuneInString(s)[1]
        last == DecodeLastRuneInString(s)[1]
        e1 == ShellCheck(er, s, first)
        e2 == ArgumentCheck(er, s, first)
        e3 == WindowsCheck(er, s, last)
    IN  IF e1 # Nil THEN e1
        ELSE IF e2 # Nil THEN e2
        ELSE IF e3 # Nil THEN e3
        ELSE HiddenCheck(er, s, first)

CheckPathSegment(r0, s) ==
    LET er == EffectiveRules(r0) IN
    IF IsReservedSegment(s) THEN {[Error EXCEPT !.name = s, !.err = errBad]}
    ELSE LET e1 == UTF8Scan(er, s) IN
         IF e1 # Nil THEN e1
         ELSE LET e2 == ByteScan(er, s) IN
              IF e2 # Nil THEN e2
              ELSE PositionalChecks(er, s)

(***************************************************************************)
(* Rules.CheckPath                                                         *)
(***************************************************************************)
PathError(p, kind) == {[Error EXCEPT !.isPath = TRUE, !.path = p, !.err = kind]}

RECURSIVE CheckPathLoopNoTrailing(_, _, _)
\* The loop without the test of len(rest) == 0 after a separator.
CheckPathLoopNoTrailing(r0, p, rest) ==
    IF Len(rest) = 0 THEN Nil
    ELSE LET i == IndexByte(rest, Slash) IN
         IF i = 0 THEN PathError(p, errDoubleSlash)
         ELSE LET part == IF i = -1 THEN rest ELSE Upto(rest, i)
                  next == IF i = -1 THEN <<>> ELSE From(rest, i + 1)
                  e == CheckPathSegment(r0, part)
              IN  IF e # Nil
                  THEN {[x EXCEPT !.isPath = TRUE, !.path = p] : x \in e}
                  ELSE CheckPathLoopNoTrailing(r0, p, next)

RECURSIVE CheckPathLoopRemainder(_, _, _)
\* The loop with every error carrying the unprocessed remainder as its path.
CheckPathLoopRemainder(r0, p, rest) ==
    IF Len(rest) = 0 THEN Nil
    ELSE LET i == IndexByte(rest, Slash) IN
         IF i = 0 THEN PathError(rest, errDoubleSlash)
         ELSE LET part == IF i = -1 THEN rest ELSE Upto(rest, i)
                  next == IF i = -1 THEN <<>> ELSE From(rest, i + 1)
              IN  IF i # -1 /\ Len(next) = 0
                  THEN PathError(rest, errTrailingSlash)
                  ELSE LET e == CheckPathSegment(r0, part) IN
                       IF e # Nil
                       THEN {[x EXCEPT !.isPath = TRUE, !.path = rest] : x \in e}
                       ELSE CheckPathLoopRemainder(r0, p, next)

RECURSIVE CheckPathLoop(_, _, _)
\* for len(rest) != 0 { ... }
CheckPathLoop(r0, p, rest) ==
    IF Len(rest) = 0 THEN Nil
    ELSE LET i == IndexByte(rest, Slash) IN
         IF i = 0 THEN PathError(p, errDoubleSlash)
         ELSE LET part == IF i = -1 THEN rest ELSE Upto(rest, i)
                  next == IF i = -1 THEN <<>> ELSE From(rest, i + 1)
              IN  IF i # -1 /\ Len(next) = 0
                  THEN PathError(p, errTrailingSlash)
                  ELSE LET e == CheckPathSegment(r0, part) IN
                       IF e # Nil
                       THEN {[x EXCEPT !.isPath = TRUE, !.path = p] : x \in e}
                       ELSE CheckPathLoop(r0, p, next)

\* CheckPath without the test of name[0] == '/'.
CheckPathNoAbsolute(r0, p) ==
    IF Len(p) = 0 THEN PathError(p, errEmpty)
    ELSE CheckPathLoop(r0, p, p)

CheckPath(r0, p) ==
    IF Len(p) = 0 THEN PathError(p, errEmpty)
    ELSE IF p[1] = Slash THEN PathError(p, errAbsolute)
    ELSE CheckPathLoop(r0, p, p)

(***************************************************************************)
(* Inputs.                                                                 *)
(***************************************************************************)
\* All byte strings over the alphabet A of length at most n.
Strings(A, n) == UNION {[1..k -> A] : k \in 0..n}

RECURSIVE Flatten(_)
Flatten(ss) == IF Len(ss) = 0 THEN <<>> ELSE Head(ss) \o Flatten(Tail(ss))

\* One byte of every kind the table and the positional checks tell apart:
\* NUL, a control byte, space, '-', '.', '/', '\', 'a', '~', the two bytes
\* of U+00E9 (0xC3 0xA9).
SegmentBytes == {0, 31, Space, Hyphen, Dot, Slash, 92, 97, Tilde, 195, 169}

\* NUL, '.', '/', 'a', 0xC3
BitsBytes == {0, Dot, Slash, 97, 195}

\* "con", "NUL", "lpt", "1", "0", "n", ".", ".txt", " "
WindowsParts ==
    {<<99, 111, 110>>, <<78, 85, 76>>, <<108, 112, 116>>, <<49>>, <<48>>,
     <<110>>, <<Dot>>, <<Dot, 116, 120, 116>>, <<Space>>}

WindowsRules ==
    SUBSET (ShellSafe \cup ArgumentSafe \cup WindowsSafe \cup NotHidden)
        \cup {Strict, Strict \ WindowsSafe}

\* '/', 'a', '.', '\'
PathBytes == {Slash, 97, Dot, 92}

PathRules ==
    {Any, Strict, ASCIIOnly, ValidUTF8, URLUnescaped, ShellSafe, ArgumentSafe,
     WindowsSafe, NotHidden}

\* "file", "text", 0xC2, 0xC3
AffixParts == {<<102, 105, 108, 101>>, <<116, 101, 120, 116>>, <<194>>, <<195>>}

\* Every byte value, after a prefix of at most MaxAffix parts and before
\* nothing or "a".
TableNames ==
    {Flatten(ps) \o <<c>> \o q :
        ps \in Strings(AffixParts, MaxAffix), c \in 0..255, q \in {<<>>, <<97>>}}

TableRules ==
    {Any, ASCIIOnly, ValidUTF8, URLUnescaped, ShellSafe, ArgumentSafe,
     WindowsSafe, NotHidden, ASCIIOnly \cup ValidUTF8, Strict}

(***************************************************************************)
(* Rules.GoString                                                          *)
(***************************************************************************)
\* strings.Join(ss, "|")
JoinBar(ss) ==
    Flatten([i \in 1..Len(ss) |-> IF i = 1 THEN ss[i] ELSE <<124>> \o ss[i]])

\* The value of a Rules bit set as a uint8.
Uint8(rs) ==
    LET bit(b) == IF b \in rs THEN 1 ELSE 0
    IN  bit(0) + 2 * bit(1) + 4 * bit(2) + 8 * bit(3) + 16 * bit(4)
            + 32 * bit(5) + 64 * bit(6) + 128 * bit(7)

\* fmt.Sprintf("0x%02x", rem)
SprintfHex(rem) ==
    LET digit(d) == IF d < 10 THEN 48 + d ELSE 87 + d
        v == Uint8(rem)
    IN  <<48, 120, digit(v \div 16), digit(v % 16)>>

\* The names appended for the bits of r0, in the order of the code.
GoStringNames(r0) ==
    LET add(s, bits, text) == IF r0 \cap bits # {} THEN Append(s, text) ELSE s
        s1 == add(<<>>, ASCIIOnly, <<65, 83, 67, 73, 73, 79, 110, 108, 121>>)
        s2 == add(s1, ValidUTF8, <<86, 97, 108, 105, 100, 85, 84, 70, 56>>)
        s3 == add(s2, URLUnescaped, <<85, 82, 76, 85, 110, 101, 115, 99, 97, 112, 101, 100>>)
        s4 == add(s3, ShellSafe, <<83, 104, 101, 108, 108, 83, 97, 102, 101>>)
        s5 == add(s4, ArgumentSafe, <<83, 104, 101, 108, 108, 83, 97, 102, 101>>)
        s6 == add(s5, WindowsSafe, <<87, 105, 110, 100, 111, 119, 115, 83, 97, 102, 101>>)
    IN  add(s6, NotHidden, <<78, 111, 116, 72, 105, 100, 100, 101, 110>>)

GoString(r0) ==
    LET s == GoStringNames(r0)
        rem == r0 \ Strict
    IN  IF rem = {}
        THEN IF Len(s) = 0 THEN <<65, 110, 121>> ELSE JoinBar(s)
        ELSE JoinBar(Append(s, SprintfHex(rem)))

(***************************************************************************)
(* The state machine: after init(), a caller holding a Rules value and a   *)
(* string calls CheckPathSegment, CheckPath or GoString.                    *)
(***************************************************************************)
Start(rs, names) ==
    /\ flags = InitFlags
    /\ windowsReserved = InitWindowsReserved
    /\ r \in rs
    /\ name \in names
    /\ result = Nil
    /\ str = <<>>
    /\ pc = "init"

Init == Start(SUBSET Strict, Strings(SegmentBytes, MaxLen))

InitBits == Start(Rules, Strings(BitsBytes, MaxBitsLen))

InitWindows ==
    Start(WindowsRules, {Flatten(ps) : ps \in Strings(WindowsParts, MaxParts)})

InitPath == Start(PathRules, Strings(PathBytes, MaxPathLen))

InitTable == Start(TableRules, TableNames)

InitCalls == Start(PathRules, Strings(PathBytes, MaxCallLen))

\* CheckPathSegment with the byte scan storing f&r back into the table.
CallCheckPathSegmentWritesTable ==
    /\ result' = CheckPathSegment(r, name)
    /\ str' = <<>>
    /\ pc' = "CheckPathSegment"
    /\ flags' = [c \in 0..255 |->
                    IF \E i \in 1..Len(name) : name[i] = c
                    THEN flags[c] \cap EffectiveRules(r)
                    ELSE flags[c]]
    /\ UNCHANGED <<windowsReserved, r, name>>

CallCheckPathSegment ==
    /\ result' = CheckPathSegment(r, name)
    /\ str' = <<>>
    /\ pc' = "CheckPathSegment"
    /\ UNCHANGED <<flags, windowsReserved, r, name>>

CallCheckPath ==
    /\ result' = CheckPath(r, name)
    /\ str' = <<>>
    /\ pc' = "CheckPath"
    /\ UNCHANGED <<flags, windowsReserved, r, name>>

CallGoString ==
    /\ str' = GoString(r)
    /\ result' = Nil
    /\ pc' = "GoString"
    /\ UNCHANGED <<flags, windowsReserved, r, name>>

Next == CallCheckPathSegment \/ CallCheckPath \/ CallGoString

\* The caller goes on to another call, with other arguments.
NewCall ==
    /\ r' \in PathRules
    /\ name' \in Strings(PathBytes, MaxCallLen)
    /\ result' = Nil
    /\ str' = <<>>
    /\ pc' = "init"
    /\ UNCHANGED <<flags, windowsReserved>>

NextCalls == Next \/ NewCall

Spec == Init /\ [][Next]_vars

SpecBits == InitBits /\ [][Next]_vars

SpecWindows == InitWindows /\ [][Next]_vars

SpecPath == InitPath /\ [][Next]_vars

SpecTable == InitTable /\ [][Next]_vars

SpecCalls == InitCalls /\ [][NextCalls]_vars

(***************************************************************************)
(* Properties.                                                             *)
(***************************************************************************)
\* The result is an error of kind k.
HasKind(e, k) == e # Nil /\ \A x \in e : x.err = k

\* The segment error of kind k for s that carries no byte, character or name.
SegmentError(s, k) == {[Error EXCEPT !.name = s, !.err = k]}

\* Some byte of s is '/' or NUL.
HasSlashOrNul(s) == \E i \in 1..Len(s) : s[i] = 47 \/ s[i] = 0

\* s is "", "." or "..".
DotName(s) == s \in {<<>>, <<46>>, <<46, 46>>}

\* C1: monotonicity of CheckPathSegment.  A segment accepted under a rule set
\* is accepted under every subset of that rule set.
C1_Monotone ==
    (pc = "CheckPathSegment" /\ result = Nil)
        => \A r1 \in SUBSET r : CheckPathSegment(r1, name) = Nil

\* C1 witness: "a~" is accepted under six constraints at once.
C1_Witness ==
    /\ pc = "CheckPathSegment"
    /\ r = Strict \ ShellSafe
    /\ name = <<97, 126>>
    /\ result = Nil

\* C2: "", "." and ".." are rejected under every one of the 256 Rules
\* values, and the outcome is the ReservedSegmentName error (errBad) for that
\* segment, whatever the rules say about encoding and bytes.
C2_ReservedSegmentName ==
    (pc = "CheckPathSegment" /\ DotName(name))
        => result = SegmentError(name, errBad)

\* C2 witness: ".." was checked under the empty rule set.
C2_Witness ==
    /\ pc = "CheckPathSegment"
    /\ r = Any
    /\ name = <<46, 46>>
    /\ HasKind(result, errBad)

\* C3: a segment that contains '/' or NUL anywhere is rejected under every one
\* of the 256 Rules values, with or without the always bit set by the caller.
C3_SlashAndNulRejected ==
    (pc = "CheckPathSegment" /\ HasSlashOrNul(name)) => result # Nil

\* C3 witness: "a" followed by NUL was rejected for the NUL byte under a Rules
\* value with no bit set.
C3_Witness ==
    /\ pc = "CheckPathSegment"
    /\ r = {}
    /\ name = <<97, 0>>
    /\ \E x \in result : x.err = errAny /\ x.char = 0

\* C4: under Any a byte string is accepted exactly when it is not "", "." or
\* ".." and holds neither '/' nor NUL; control bytes and ill-formed UTF-8 are
\* accepted.
C4_AnyAcceptsAllButSlashNul ==
    (pc = "CheckPathSegment" /\ r = Any)
        => (result = Nil <=> (~DotName(name) /\ ~HasSlashOrNul(name)))

\* C4 witness: a control byte followed by a lone 0xC3 byte is accepted.
C4_Witness ==
    /\ pc = "CheckPathSegment"
    /\ r = Any
    /\ name = <<31, 195>>
    /\ result = Nil

\* C5: the constraints are independent conjuncts.  A segment is accepted
\* under r exactly when it is accepted under Any and under each single
\* constraint of r.
C5_IndependentConjuncts ==
    pc = "CheckPathSegment"
        => (result = Nil <=>
                /\ CheckPathSegment(Any, name) = Nil
                /\ \A c \in r : CheckPathSegment({c}, name) = Nil)

\* C5 witness: U+00E9 is rejected under ASCIIOnly|ValidUTF8|NotHidden; of the
\* three single constraints only ASCIIOnly rejects it.
C5_Witness ==
    /\ pc = "CheckPathSegment"
    /\ r = ASCIIOnly \cup ValidUTF8 \cup NotHidden
    /\ name = <<195, 169>>
    /\ result # Nil
    /\ CheckPathSegment(ValidUTF8, name) = Nil
    /\ CheckPathSegment(NotHidden, name) = Nil

\* A segment passes steps 1 to 5 of CheckPathSegment under r0: it is not "",
\* "." or "..", it is well-formed when ValidUTF8 is asked for without
\* ASCIIOnly, the table allows each of its bytes, and it starts neither with
\* '~' under ShellSafe nor with '-' under ArgumentSafe.
PassesEarlier(r0, s) ==
    /\ ~DotName(s)
    /\ (1 \in r0 /\ 0 \notin r0) => WellFormed(s)
    /\ \A i \in 1..Len(s) : ((r0 \cap (0..6)) \cup {7}) \subseteq flags[s[i]]
    /\ ~(3 \in r0 /\ s[1] = 126)
    /\ ~(4 \in r0 /\ s[1] = 45)

\* The last byte of s is '.' or space.
EndsInDotOrSpace(s) == Len(s) > 0 /\ s[Len(s)] \in {46, 32}

\* The number of '.' bytes of s.
DotCount(s) == Cardinality({i \in 1..Len(s) : s[i] = 46})

\* The text of s before its first '.', all of s if it has none.
BeforeFirstDot(s) ==
    IF DotCount(s) = 0 THEN s
    ELSE SubSeq(s, 1, (CHOOSE i \in 1..Len(s) :
                          s[i] = 46 /\ \A j \in 1..(i - 1) : s[j] # 46) - 1)

\* s with the letters A..Z folded to a..z.
FoldLower(s) == [i \in 1..Len(s) |-> IF 65 <= s[i] /\ s[i] <= 90 THEN s[i] + 32 ELSE s[i]]

\* con, prn, aux, nul, com1..com9, lpt1..lpt9
DeviceNames ==
    {<<99, 111, 110>>, <<112, 114, 110>>, <<97, 117, 120>>, <<110, 117, 108>>}
        \cup {<<99, 111, 109, d>> : d \in 49..57}
        \cup {<<108, 112, 116, d>> : d \in 49..57}

\* The ReservedWindowsName error for s.
DeviceNameError(s) ==
    {[Error EXCEPT !.name = s, !.err = errWReserved,
                   !.base = FoldLower(BeforeFirstDot(s))]}

\* C6: under a rule set with WindowsSafe, a segment that passes the earlier
\* checks and does not end in '.' or space is rejected as ReservedWindowsName
\* exactly when it has at most one '.' and its text before the first '.',
\* folded to lower case, is a device name; the outcome carries the folded base
\* name.  "con", "NUL.TXT" and "lpt1" are rejected, "nul.txt.foo" is accepted.
C6_ReservedWindowsName ==
    /\ (pc = "CheckPathSegment" /\ WindowsSafe \subseteq r
            /\ PassesEarlier(r, name) /\ ~EndsInDotOrSpace(name))
        => LET hit == /\ DotCount(name) <= 1
                      /\ FoldLower(BeforeFirstDot(name)) \in DeviceNames
           IN  /\ HasKind(result, errWReserved) <=> hit
               /\ hit => result = DeviceNameError(name)
    /\ CheckPathSegment(WindowsSafe, <<99, 111, 110>>)
            = DeviceNameError(<<99, 111, 110>>)
    /\ CheckPathSegment(WindowsSafe, <<78, 85, 76, 46, 84, 88, 84>>)
            = {[Error EXCEPT !.name = <<78, 85, 76, 46, 84, 88, 84>>,
                             !.err = errWReserved, !.base = <<110, 117, 108>>]}
    /\ CheckPathSegment(WindowsSafe, <<108, 112, 116, 49>>)
            = DeviceNameError(<<108, 112, 116, 49>>)
    /\ CheckPathSegment(WindowsSafe,
            <<110, 117, 108, 46, 116, 120, 116, 46, 102, 111, 111>>) = Nil

\* C6 witness: "NUL.txt" was rejected under WindowsSafe|NotHidden with the
\* base name "nul".
C6_Witness ==
    /\ pc = "CheckPathSegment"
    /\ r = WindowsSafe \cup NotHidden
    /\ name = <<78, 85, 76, 46, 116, 120, 116>>
    /\ \E x \in result : x.err = errWReserved /\ x.base = <<110, 117, 108>>

\* C7: under a rule set with WindowsSafe, every segment ending in '.' or
\* space is rejected, as TrailingCharacter with that character when no earlier
\* check fails.  Without WindowsSafe no outcome is TrailingCharacter, an
\* accepted segment stays accepted with '.' appended, and it stays accepted
\* with a space appended unless URLUnescaped or ShellSafe forbids the space.
\* "a." and "ab." pass Strict minus WindowsSafe, "ab " passes
\* ArgumentSafe|NotHidden.
C7_TrailingCharacter ==
    /\ (pc = "CheckPathSegment" /\ WindowsSafe \subseteq r
            /\ EndsInDotOrSpace(name))
        => /\ result # Nil
           /\ PassesEarlier(r, name)
                => result = {[Error EXCEPT !.name = name, !.err = errLast,
                                           !.char = name[Len(name)]]}
    /\ (pc = "CheckPathSegment" /\ r \cap WindowsSafe = {})
        => /\ ~HasKind(result, errLast)
           /\ result = Nil
                => /\ CheckPathSegment(r, name \o <<46>>) = Nil
                   /\ r \cap (URLUnescaped \cup ShellSafe) = {}
                        => CheckPathSegment(r, name \o <<32>>) = Nil
    /\ CheckPathSegment(Strict \ WindowsSafe, <<97, 46>>) = Nil
    /\ CheckPathSegment(Strict \ WindowsSafe, <<97, 98, 46>>) = Nil
    /\ CheckPathSegment(ArgumentSafe \cup NotHidden, <<97, 98, 32>>) = Nil

\* C7 witness: "a " was rejected under WindowsSafe|ArgumentSafe for its
\* trailing space.
C7_Witness ==
    /\ pc = "CheckPathSegment"
    /\ r = WindowsSafe \cup ArgumentSafe
    /\ name = <<97, 32>>
    /\ \E x \in result : x.err = errLast /\ x.char = 32

\* C8: a segment starting with '~' is rejected whenever ShellSafe is asked
\* for and one starting with '-' whenever ArgumentSafe is asked for.  ShellSafe
\* alone accepts a segment starting with '-', and ArgumentSafe alone one
\* starting with '~', whenever the table allows its bytes.
C8_LeadingCharacters ==
    /\ (pc = "CheckPathSegment" /\ Len(name) > 0)
        => /\ (ShellSafe \subseteq r /\ name[1] = 126) => result # Nil
           /\ (ArgumentSafe \subseteq r /\ name[1] = 45) => result # Nil
           /\ (r = ShellSafe /\ name[1] = 45)
                => (result = Nil
                        <=> \A i \in 1..Len(name) : {3, 7} \subseteq flags[name[i]])
           /\ (r = ArgumentSafe /\ name[1] = 126)
                => (result = Nil
                        <=> \A i \in 1..Len(name) : {4, 7} \subseteq flags[name[i]])
    \* "~user" and "-flag"
    /\ HasKind(CheckPathSegment(ShellSafe, <<126, 117, 115, 101, 114>>), errFirst)
    /\ HasKind(CheckPathSegment(ArgumentSafe, <<45, 102, 108, 97, 103>>), errFirst)
    /\ CheckPathSegment(ShellSafe, <<45, 102, 108, 97, 103>>) = Nil
    /\ CheckPathSegment(ShellSafe, <<45>>) = Nil
    /\ CheckPathSegment(ArgumentSafe, <<126, 117, 115, 101, 114>>) = Nil

\* C8 witness: "-~" was accepted under ShellSafe alone.
C8_Witness ==
    /\ pc = "CheckPathSegment"
    /\ r = ShellSafe
    /\ name = <<45, 126>>
    /\ result = Nil

RECURSIVE Pieces(_)
\* The pieces of s between its '/' bytes, in order: one more than the number
\* of '/' bytes.
Pieces(s) ==
    IF \A i \in 1..Len(s) : s[i] # 47 THEN <<s>>
    ELSE LET k == CHOOSE i \in 1..Len(s) :
                      s[i] = 47 /\ \A j \in 1..(i - 1) : s[j] # 47
         IN  <<SubSeq(s, 1, k - 1)>> \o Pieces(SubSeq(s, k + 1, Len(s)))

\* Every piece of s is a segment that r0 accepts.
AllPiecesPass(r0, s) ==
    \A i \in 1..Len(Pieces(s)) : CheckPathSegment(r0, Pieces(s)[i]) = Nil

\* The bytes k and k+1 of s are both '/'.
DoubleAt(s, k) == k \in 1..(Len(s) - 1) /\ s[k] = 47 /\ s[k + 1] = 47

\* "a/b/c", "/a/b", "a//b", "a/b/"
PathABC == <<97, 47, 98, 47, 99>>
PathSlashAB == <<47, 97, 47, 98>>
PathADoubleB == <<97, 47, 47, 98>>
PathABSlash == <<97, 47, 98, 47>>

\* C9: under every rule set CheckPath gives EmptyPath for the empty path,
\* AbsolutePath for a path starting with '/', DoubleSeparator for a relative
\* path with two adjacent separators whose segments before them pass,
\* TrailingSeparator for a path ending in '/' whose segments pass; and
\* CheckPath(Strict, "a/b/c") accepts.
C9_PathDefects ==
    /\ pc = "CheckPath"
        => /\ name = <<>> => HasKind(result, errEmpty)
           /\ (Len(name) > 0 /\ name[1] = 47) => HasKind(result, errAbsolute)
           /\ (Len(name) > 0 /\ name[1] # 47 /\ \E k \in 1..Len(name) : DoubleAt(name, k))
                => LET k == CHOOSE i \in 1..Len(name) :
                                /\ DoubleAt(name, i)
                                /\ \A j \in 1..(i - 1) : ~DoubleAt(name, j)
                   IN  AllPiecesPass(r, SubSeq(name, 1, k - 1))
                            => HasKind(result, errDoubleSlash)
           /\ (Len(name) > 0 /\ name[Len(name)] = 47
                    /\ AllPiecesPass(r, SubSeq(name, 1, Len(name) - 1)))
                => HasKind(result, errTrailingSlash)
    /\ CheckPath(Strict, PathABC) = Nil
    /\ HasKind(CheckPath(Strict, PathSlashAB), errAbsolute)
    /\ HasKind(CheckPath(Strict, <<47>>), errAbsolute)
    /\ HasKind(CheckPath(Strict, PathADoubleB), errDoubleSlash)
    /\ HasKind(CheckPath(Strict, PathABSlash), errTrailingSlash)
    /\ HasKind(CheckPath(Strict, <<>>), errEmpty)

\* C9 witness: "a/a//" was reported as DoubleSeparator under Strict, not as
\* TrailingSeparator.
C9_Witness ==
    /\ pc = "CheckPath"
    /\ r = Strict
    /\ name = <<97, 47, 97, 47, 47>>
    /\ HasKind(result, errDoubleSlash)

\* C10: CheckPath accepts a path exactly when CheckPathSegment accepts every
\* piece between its '/' bytes; nothing but '/' splits.  For a segment s
\* without '/', CheckPathSegment(s), CheckPath(s) and CheckPath(s/s/s) give
\* the same verdict.
C10_PathIsListOfSegments ==
    pc = "CheckPath"
        => /\ result = Nil <=> AllPiecesPass(r, name)
           /\ (\A i \in 1..Len(name) : name[i] # 47)
                => /\ result = Nil <=> CheckPathSegment(r, name) = Nil
                   /\ result = Nil
                        <=> CheckPath(r, name \o <<47>> \o name \o <<47>> \o name) = Nil

\* C10 witness: "a\a/a" was accepted under ASCIIOnly as the two segments "a\a"
\* and "a".
C10_Witness ==
    /\ pc = "CheckPath"
    /\ r = ASCIIOnly
    /\ name = <<97, 92, 97, 47, 97>>
    /\ Len(Pieces(name)) = 2
    /\ result = Nil

\* The control bytes 0..31 and 127.
ControlBytes == (0..31) \cup {127}

\* Every byte of s is below 128.
IsASCII(s) == \A i \in 1..Len(s) : s[i] < 128

\* space " # % / : < > ? [ \ ] ^ ` { | }
URLForbidden ==
    {32, 34, 35, 37, 47, 58, 60, 62, 63, 91, 92, 93, 94, 96, 123, 124, 125}

\* Letters, digits, - . _ ~ @ and the sub-delims ! $ & ' ( ) * + , ; =
URLAllowed ==
    (65..90) \cup (97..122) \cup (48..57) \cup {45, 46, 95, 126, 64}
        \cup {33, 36, 38, 39, 40, 41, 42, 43, 44, 59, 61}

\* "mailto:user", "%20", "file-name_v0.1.3", "~user", "@", "nul.txt"
NameMailto == <<109, 97, 105, 108, 116, 111, 58, 117, 115, 101, 114>>
NamePercent20 == <<37, 50, 48>>
NameFileVersion ==
    <<102, 105, 108, 101, 45, 110, 97, 109, 101, 95, 118, 48, 46, 49, 46, 51>>
NameTildeUser == <<126, 117, 115, 101, 114>>
NameNulTxt == <<110, 117, 108, 46, 116, 120, 116>>

\* C11: under exactly URLUnescaped an ASCII segment other than "", "." and
\* ".." is accepted exactly when it holds no control byte and none of
\* space " # % / : < > ? [ \ ] ^ ` { | }; letters, digits, - . _ ~ @ and the
\* sub-delims are allowed by the table.
C11_URLUnescaped ==
    /\ (pc = "CheckPathSegment" /\ r = URLUnescaped /\ IsASCII(name)
            /\ ~DotName(name))
        => (result = Nil
                <=> \A i \in 1..Len(name) :
                        name[i] \notin ControlBytes \cup URLForbidden)
    /\ \A c \in URLAllowed : {2, 7} \subseteq flags[c]
    /\ CheckPathSegment(URLUnescaped, NameMailto) # Nil
    /\ CheckPathSegment(URLUnescaped, NamePercent20) # Nil
    /\ CheckPathSegment(URLUnescaped, NameFileVersion) = Nil
    /\ CheckPathSegment(URLUnescaped, NameTildeUser) = Nil
    /\ CheckPathSegment(URLUnescaped, <<64>>) = Nil
    /\ CheckPathSegment(URLUnescaped, NameNulTxt) = Nil

\* C11 witness: "file:" was rejected under URLUnescaped for the colon.
C11_Witness ==
    /\ pc = "CheckPathSegment"
    /\ r = URLUnescaped
    /\ name = <<102, 105, 108, 101, 58>>
    /\ \E x \in result : x.err = errAny /\ x.char = 58

\* space / | & ; < > ( ) $ ` \ " '
ShellForbidden == {32, 47, 124, 38, 59, 60, 62, 40, 41, 36, 96, 92, 34, 39}

\* C12: under exactly ShellSafe, "file" followed by an ASCII byte c is
\* rejected exactly when c is a control byte or one of
\* space / | & ; < > ( ) $ ` \ " '.
C12_ShellSafe ==
    (pc = "CheckPathSegment" /\ r = ShellSafe /\ Len(name) = 5
        /\ SubSeq(name, 1, 4) = <<102, 105, 108, 101>> /\ name[5] < 128)
        => (result # Nil <=> name[5] \in ControlBytes \cup ShellForbidden)

\* C12 witness: "file~" was accepted under ShellSafe.
C12_Witness ==
    /\ pc = "CheckPathSegment"
    /\ r = ShellSafe
    /\ name = <<102, 105, 108, 101, 126>>
    /\ result = Nil

RECURSIVE IsUTF8(_)
\* s is a sequence of well-formed UTF-8 byte sequences (Unicode, table 3-7).
IsUTF8(s) ==
    IF Len(s) = 0 THEN TRUE
    ELSE LET b == s[1]
             n == IF b <= 127 THEN 1
                  ELSE IF 194 <= b /\ b <= 223 THEN 2
                  ELSE IF 224 <= b /\ b <= 239 THEN 3
                  ELSE IF 240 <= b /\ b <= 244 THEN 4
                  ELSE 0
             second == IF b = 224 THEN 160..191
                       ELSE IF b = 237 THEN 128..159
                       ELSE IF b = 240 THEN 144..191
                       ELSE IF b = 244 THEN 128..143
                       ELSE 128..191
         IN  /\ n > 0
             /\ Len(s) >= n
             /\ n >= 2 => s[2] \in second
             /\ \A i \in 3..n : s[i] \in 128..191
             /\ IsUTF8(SubSeq(s, n + 1, Len(s)))

\* "text"
NameText == <<116, 101, 120, 116>>

\* C13: under exactly ValidUTF8 a segment other than "", "." and ".." is
\* accepted exactly when it is well-formed UTF-8 without '/' and NUL, and an
\* ill-formed one is rejected as InvalidEncoding.  "text" followed by the
\* encoding of a code point 1..255 other than '/' is accepted, "text" followed
\* by one raw byte 128..255 is rejected.
C13_ValidUTF8 ==
    (pc = "CheckPathSegment" /\ r = ValidUTF8 /\ ~DotName(name))
        => /\ result = Nil <=> (IsUTF8(name) /\ ~HasSlashOrNul(name))
           /\ ~IsUTF8(name) => result = SegmentError(name, errInvalidUTF8)
           /\ (Len(name) = 5 /\ SubSeq(name, 1, 4) = NameText)
                => /\ (name[5] \in 1..127 /\ name[5] # 47) => result = Nil
                   /\ name[5] \in 128..255 => result # Nil
           /\ (Len(name) = 2 /\ name[1] \in {194, 195} /\ name[2] \in 128..191)
                => CheckPathSegment(ValidUTF8, NameText \o name) = Nil

\* C13 witness: "text" followed by the raw byte 0xE9 was rejected as
\* InvalidEncoding.
C13_Witness ==
    /\ pc = "CheckPathSegment"
    /\ r = ValidUTF8
    /\ name = NameText \o <<233>>
    /\ HasKind(result, errInvalidUTF8)

\* C14: under exactly ASCIIOnly a segment other than "", "." and ".." is
\* accepted exactly when each of its bytes is in 1..127 and is not '/'; a byte
\* 128..255 rejects it, alone or inside a well-formed character, and the
\* control bytes 1..31 and 127 are accepted.
C14_ASCIIOnly ==
    (pc = "CheckPathSegment" /\ r = ASCIIOnly /\ ~DotName(name))
        => (result = Nil
                <=> \A i \in 1..Len(name) : name[i] \in 1..127 /\ name[i] # 47)

\* C14 witness: U+00E9, well-formed, was rejected under ASCIIOnly.
C14_Witness ==
    /\ pc = "CheckPathSegment"
    /\ r = ASCIIOnly
    /\ name = <<195, 169>>
    /\ IsUTF8(name)
    /\ \E x \in result : x.err = errAny /\ x.char = 233

\* The names of the seven constraints, by bit position.
ConstraintName(b) ==
    CASE b = 0 -> <<65, 83, 67, 73, 73, 79, 110, 108, 121>>
      [] b = 1 -> <<86, 97, 108, 105, 100, 85, 84, 70, 56>>
      [] b = 2 -> <<85, 82, 76, 85, 110, 101, 115, 99, 97, 112, 101, 100>>
      [] b = 3 -> <<83, 104, 101, 108, 108, 83, 97, 102, 101>>
      [] b = 4 -> <<65, 114, 103, 117, 109, 101, 110, 116, 83, 97, 102, 101>>
      [] b = 5 -> <<87, 105, 110, 100, 111, 119, 115, 83, 97, 102, 101>>
      [] b = 6 -> <<78, 111, 116, 72, 105, 100, 100, 101, 110>>

RECURSIVE Rendering(_, _)
\* The names of the constraints b..6 contained in rs, each preceded by '|'.
Rendering(rs, b) ==
    IF b > 6 THEN <<>>
    ELSE (IF b \in rs THEN <<124>> \o ConstraintName(b) ELSE <<>>)
            \o Rendering(rs, b + 1)

\* C15: for a rule set within the seven constraints GoString gives "Any" for
\* the empty set and otherwise the names of exactly the constraints it
\* contains, each under its own name, joined by '|'; two different rule sets
\* never give the same string.
C15_GoStringNames ==
    (pc = "GoString" /\ r \subseteq 0..6)
        => /\ str = IF r = {} THEN <<65, 110, 121>> ELSE Tail(Rendering(r, 0))
           /\ \A r2 \in SUBSET (0..6) : r2 # r => GoString(r2) # str

TableRejects(r0, c) == ~(((r0 \cap (0..6)) \cup {7}) \subseteq flags[c])

\* s reaches the byte scan under r0: it is not "", "." or "..", and it is
\* well-formed when ValidUTF8 is asked for without ASCIIOnly.
ReachesByteScan(r0, s) ==
    /\ ~DotName(s)
    /\ (1 \in r0 /\ 0 \notin r0) => IsUTF8(s)

\* The first byte of s that the table does not allow under r0.
FirstRejected(r0, s) ==
    s[CHOOSE i \in 1..Len(s) :
            /\ TableRejects(r0, s[i])
            /\ \A j \in 1..(i - 1) : ~TableRejects(r0, s[j])]

\* C17: when the byte scan fails, the kind is NonASCIIByte if the rule set
\* contains ASCIIOnly and the first failing byte is 128..255, and
\* DisallowedByte otherwise.
C17_NonASCIIKind ==
    (pc = "CheckPathSegment" /\ ReachesByteScan(r, name)
        /\ \E i \in 1..Len(name) : TableRejects(r, name[i]))
        => IF 0 \in r /\ FirstRejected(r, name) >= 128
           THEN HasKind(result, errNonASCII)
           ELSE HasKind(result, errAny)

\* URLUnescaped, ShellSafe, ArgumentSafe, WindowsSafe, NotHidden
ContextBits == {2, 3, 4, 5, 6}

\* C18 as stated: no control byte and no byte 128..255 satisfies any of
\* URLUnescaped, ShellSafe, ArgumentSafe, WindowsSafe, NotHidden, and a segment
\* with such a byte is rejected under every rule set that has one of the five.
C18_ControlAndHighBytes ==
    /\ \A c \in ControlBytes \cup (128..255) : flags[c] \cap ContextBits = {}
    /\ (pc = "CheckPathSegment" /\ r \cap ContextBits # {}
            /\ \E i \in 1..Len(name) : name[i] \in ControlBytes \cup (128..255))
        => result # Nil

\* C18 amended: a control byte satisfies none of the five constraints, and a
\* segment with a control byte is rejected under every rule set that has one
\* of them; a byte 128..255 satisfies every constraint but ASCIIOnly, and a
\* segment made of such bytes is accepted under every rule set within the five.
C18_ControlBytesOnly ==
    /\ \A c \in ControlBytes : flags[c] \cap ContextBits = {}
    /\ \A c \in 128..255 : flags[c] = (0..7) \ {0}
    /\ (pc = "CheckPathSegment" /\ r \cap ContextBits # {}
            /\ \E i \in 1..Len(name) : name[i] \in ControlBytes)
        => result # Nil
    /\ (pc = "CheckPathSegment" /\ r \subseteq ContextBits /\ Len(name) > 0
            /\ \A i \in 1..Len(name) : name[i] >= 128)
        => result = Nil

\* C18 witness: the two bytes 0xC3 0x80 were accepted under URLUnescaped.
C18_Witness ==
    /\ pc = "CheckPathSegment"
    /\ r = URLUnescaped
    /\ name = <<195, 128>>
    /\ result = Nil

\* The result is the error of kind k for the segment s with the character c.
IsCharError(e, s, k, c) == e = {[Error EXCEPT !.name = s, !.err = k, !.char = c]}

\* The result is a byte scan failure that reports the byte c of s.
IsByteFailure(e, s, c) ==
    /\ e # Nil
    /\ \A x \in e :
        /\ x.name = s
        /\ x.err \in {errAny, errNonASCII}
        /\ IF c < 128 THEN x.char = c /\ x.byte = 0
           ELSE x.byte = c \/ (x.byte = 0 /\ x.char >= 128)

\* s has at most one '.' and its text before the first '.', folded to lower
\* case, is a device name.
IsDeviceName(s) ==
    DotCount(s) <= 1 /\ FoldLower(BeforeFirstDot(s)) \in DeviceNames

\* "con.", "nul.t:"
NameConDot == <<99, 111, 110, 46>>
NameNulTColon == <<110, 117, 108, 46, 116, 58>>

\* C19: CheckPathSegment reports the first failure in the order
\* ReservedSegmentName, InvalidEncoding, byte scan (its first failing byte),
\* leading '~' (ShellSafe), leading '-' (ArgumentSafe), trailing character
\* (WindowsSafe), reserved name (WindowsSafe), leading '.' (NotHidden), and
\* accepts when none fails.  A segment with a byte the table disallows is
\* never reported as LeadingCharacter, TrailingCharacter or
\* ReservedWindowsName.
C19_CheckOrder ==
    /\ pc = "CheckPathSegment"
        => /\ IF DotName(name) THEN result = SegmentError(name, errBad)
              ELSE IF (1 \in r /\ 0 \notin r) /\ ~IsUTF8(name)
                THEN result = SegmentError(name, errInvalidUTF8)
              ELSE IF \E i \in 1..Len(name) : TableRejects(r, name[i])
                THEN IsByteFailure(result, name, FirstRejected(r, name))
              ELSE IF 3 \in r /\ name[1] = 126
                THEN IsCharError(result, name, errFirst, 126)
              ELSE IF 4 \in r /\ name[1] = 45
                THEN IsCharError(result, name, errFirst, 45)
              ELSE IF 5 \in r /\ EndsInDotOrSpace(name)
                THEN IsCharError(result, name, errLast, name[Len(name)])
              ELSE IF 5 \in r /\ IsDeviceName(name)
                THEN result = DeviceNameError(name)
              ELSE IF 6 \in r /\ name[1] = 46
                THEN IsCharError(result, name, errFirst, 46)
              ELSE result = Nil
           /\ (\E i \in 1..Len(name) : TableRejects(r, name[i]))
                => \A x \in result : x.err \notin {errFirst, errLast, errWReserved}
    /\ IsCharError(CheckPathSegment(WindowsSafe, NameConDot), NameConDot, errLast, 46)
    /\ IsByteFailure(CheckPathSegment(WindowsSafe, NameNulTColon), NameNulTColon, 58)

\* C19 witness: ". " violates the trailing character check and the NotHidden
\* check, and was reported as TrailingCharacter.
C19_Witness ==
    /\ pc = "CheckPathSegment"
    /\ r = WindowsSafe \cup NotHidden
    /\ name = <<46, 32>>
    /\ IsCharError(result, name, errLast, 32)

\* The outcome of step k (4 to 7) of CheckPathSegment for the segment s
\* under r0, taken alone.
StepOutcome(r0, s, k) ==
    LET er == EffectiveRules(r0)
        first == DecodeRuneInString(s)[1]
        last == DecodeLastRuneInString(s)[1]
    IN  CASE k = 4 -> ShellCheck(er, s, first)
          [] k = 5 -> ArgumentCheck(er, s, first)
          [] k = 6 -> WindowsCheck(er, s, last)
          [] k = 7 -> HiddenCheck(er, s, first)

\* The orders in which the steps 4 to 7 can run.
StepOrders == {o \in [1..4 -> 4..7] : \A i, j \in 1..4 : o[i] = o[j] => i = j}

\* The outcome of running the steps in the order o: the first failure.
OrderedOutcome(r0, s, o) ==
    IF \E i \in 1..4 : StepOutcome(r0, s, o[i]) # Nil
    THEN StepOutcome(r0, s, o[CHOOSE i \in 1..4 :
                                /\ StepOutcome(r0, s, o[i]) # Nil
                                /\ \A j \in 1..(i - 1) : StepOutcome(r0, s, o[j]) = Nil])
    ELSE Nil

\* The steps among ks that reject s under r0.
Rejecting(r0, s, ks) == {k \in ks : StepOutcome(r0, s, k) # Nil}

\* s passes the steps 1 to 3 under r0.
PassesScan(r0, s) ==
    /\ ReachesByteScan(r0, s)
    /\ \A i \in 1..Len(s) : ~TableRejects(r0, s[i])

\* C20 as stated: for a segment that passes steps 1 to 3, at most one of the
\* steps 4 to 7 rejects, and the steps run in any order give the outcome of
\* the call.
C20_DisjointSteps ==
    (pc = "CheckPathSegment" /\ PassesScan(r, name))
        => /\ Cardinality(Rejecting(r, name, 4..7)) <= 1
           /\ \A o \in StepOrders : OrderedOutcome(r, name, o) = result

\* C20 amended: for a segment that passes steps 1 to 3, at most one of the
\* steps 4, 5 and 7 rejects, while step 6 may reject together with one of
\* them; the steps run in any order give the verdict of the call, and its
\* kind and character whenever at most one step rejects.
C20_DisjointLeadingSteps ==
    (pc = "CheckPathSegment" /\ PassesScan(r, name))
        => /\ Cardinality(Rejecting(r, name, {4, 5, 7})) <= 1
           /\ \A o \in StepOrders :
                /\ OrderedOutcome(r, name, o) = Nil <=> result = Nil
                /\ Cardinality(Rejecting(r, name, 4..7)) <= 1
                    => OrderedOutcome(r, name, o) = result

\* C20 witness: "~." under ShellSafe|WindowsSafe is rejected by step 4 and by
\* step 6, and was reported as LeadingCharacter.
C20_Witness ==
    /\ pc = "CheckPathSegment"
    /\ r = ShellSafe \cup WindowsSafe
    /\ name = <<126, 46>>
    /\ PassesScan(r, name)
    /\ Rejecting(r, name, 4..7) = {4, 6}
    /\ IsCharError(result, name, errFirst, 126)

\* Piece i of the path s is empty or a segment that r0 rejects.
PieceFails(r0, s, i) ==
    Pieces(s)[i] = <<>> \/ CheckPathSegment(r0, Pieces(s)[i]) # Nil

\* The outcome CheckPath owes for piece i of s, the first one counted as
\* failing: DoubleSeparator or TrailingSeparator for an empty piece, and for
\* a rejected segment the outcome of CheckPathSegment with only the path
\* scope and the whole path added.
PieceOutcome(r0, s, i) ==
    IF Pieces(s)[i] # <<>>
    THEN {[x EXCEPT !.isPath = TRUE, !.path = s] :
            x \in CheckPathSegment(r0, Pieces(s)[i])}
    ELSE IF i = Len(Pieces(s)) THEN PathError(s, errTrailingSlash)
         ELSE PathError(s, errDoubleSlash)

\* The outcome for the non-empty relative path s when the pieces in skip are
\* not validated: that of the first failing piece outside skip, left to
\* right.
LeftToRightOutcome(r0, s, skip) ==
    LET bad == {i \in 1..Len(Pieces(s)) : i \notin skip /\ PieceFails(r0, s, i)}
    IN  IF bad = {} THEN Nil
        ELSE PieceOutcome(r0, s, CHOOSE i \in bad : \A j \in bad : i <= j)

\* The non-empty segment in front of a trailing separator of s, if s has one.
BeforeTrailing(s) ==
    IF /\ Len(Pieces(s)) > 1
       /\ Pieces(s)[Len(Pieces(s))] = <<>>
       /\ Pieces(s)[Len(Pieces(s)) - 1] # <<>>
    THEN {Len(Pieces(s)) - 1}
    ELSE {}

\* C21 as stated: CheckPath validates the segments left to right and returns
\* the first failure; a segment failure is the outcome of CheckPathSegment
\* for that segment, unchanged but for the path scope and the whole path, and
\* a path-level failure carries the whole path.
C21_FirstFailure ==
    pc = "CheckPath"
        => /\ name = <<>> => result = PathError(name, errEmpty)
           /\ (Len(name) > 0 /\ name[1] = 47)
                => result = PathError(name, errAbsolute)
           /\ (Len(name) > 0 /\ name[1] # 47)
                => result = LeftToRightOutcome(r, name, {})

\* C21 amended: as C21, except that the segment in front of a trailing
\* separator is not validated, so a path ending in '/' whose earlier
\* segments pass is reported as TrailingSeparator even when that segment
\* would be rejected.
C21_FirstFailureBeforeTrailing ==
    pc = "CheckPath"
        => /\ name = <<>> => result = PathError(name, errEmpty)
           /\ (Len(name) > 0 /\ name[1] = 47)
                => result = PathError(name, errAbsolute)
           /\ (Len(name) > 0 /\ name[1] # 47)
                => result = LeftToRightOutcome(r, name, BeforeTrailing(name))

\* C21 witness: "a/.." under Any failed in its second segment, and the
\* outcome is that of CheckPathSegment("..") with the path scope and the
\* whole path "a/..".
C21_Witness ==
    /\ pc = "CheckPath"
    /\ r = Any
    /\ name = <<97, 47, 46, 46>>
    /\ result = {[Error EXCEPT !.isPath = TRUE, !.path = name,
                               !.name = <<46, 46>>, !.err = errBad]}
    /\ CheckPathSegment(r, <<46, 46>>) = SegmentError(<<46, 46>>, errBad)

====
